---- MODULE Spec2Model ----
(***************************************************************************)
(* A model of the request-gating core of youtube-summarizer-agent:         *)
(*   - utils/rate_limiter.py   RateLimiter (per-user sliding windows,      *)
(*     temporary blocks, platform concurrency counter);                    *)
(*   - youtube_summarizer_agent/agent.py   YouTubeSummarizerAgent.assist,  *)
(*     the caller that pairs acquire and release around the guarded work;  *)
(*   - utils/cache.py   CacheManager (one JSON file per hashed key, with   *)
(*     a time-to-live).                                                    *)
(*                                                                         *)
(* Three specifications share the limiter's operators:                     *)
(*   Spec        the limiter's API called in any order while time passes;  *)
(*   SpecSched   concurrent asyncio tasks inside acquire/release, one      *)
(*               step per statement, under the event loop's cooperative    *)
(*               scheduling and the asyncio.Lock;                          *)
(*   SpecAssist  concurrent requests running assist (SpecAssistFair adds   *)
(*               the fairness the event loop gives every runnable task).   *)
(* A fourth, SpecCache, calls the CacheManager's API in any order while    *)
(* time passes and the stored files may get damaged.  SpecCooldown is Spec *)
(* for a limiter with a cooldown, SpecSummarize runs assist's guarded      *)
(* section against the cache's files, and SpecLive (SpecLiveFair) lets one *)
(* user call the limiter without end.                                      *)
(***************************************************************************)
EXTENDS Integers, Sequences, FiniteSets, TLC

VARIABLES
    config,             \* the RateLimiter's constructor arguments
    now,                \* time.time(), in whole seconds
    user_limits,        \* self.user_limits: user id -> UserRateLimit (a defaultdict)
    concurrent_queries, \* self.concurrent_queries
    concurrent_lock,    \* self.concurrent_lock: the task holding it, or NoTask
    last,               \* history: the last acquire/release call and its result
    admitted,           \* history: per user, the instants of the admitted acquires
    ticks,              \* number of clock advances so far
    calls,              \* number of calls (Spec, SpecSched) or requests (SpecAssist) started
    running,            \* the task the event loop is running, or NoTask
    tasks,              \* SpecSched: per task, its position inside acquire/release
    reqs,               \* SpecAssist: per request, its position inside assist
    cache_dir,          \* self.cache_dir: file name -> the file's contents
    written,            \* history: per key, the last set that wrote its record
    cache_last          \* history: the last CacheManager call and its result

\* the CacheManager's part of the state
cache_vars == <<cache_dir, written, cache_last>>

vars == <<config, now, user_limits, concurrent_queries, concurrent_lock,
          last, admitted, ticks, calls, running, tasks, reqs, cache_vars>>

-----------------------------------------------------------------------------
(* Bounds of the model *)

\* the clock starts here; any instant later than one hour after the epoch
Epoch == 100000
\* the clock is advanced at most this many times
MaxTicks == 3
\* at most this many calls of acquire are started (Spec, SpecSched)
MaxCalls == 4
\* at most this many requests enter assist (SpecAssist)
MaxRequests == 4

Users == {"u1", "u2"}
NoTask == "none"

\* The amounts by which the clock advances: they add up to the limiter's
\* windows and their neighbours (59, 59 + 1 = 60, 3541 + 59 = 3600, 3601).
TickSteps == {1, 59, 3541}

-----------------------------------------------------------------------------
(* Configuration: RateLimiter.__init__ *)

\* the agent's shape of limits (agent.py 33-39) with small counts: a block of
\* one minute, and a block as long as the sweep's one-hour horizon
Configs ==
    { [requests_per_minute |-> 2, requests_per_hour |-> 3,
       max_concurrent_platform |-> 2, cooldown_seconds |-> 0,
       block_duration_seconds |-> 60],
      [requests_per_minute |-> 2, requests_per_hour |-> 3,
       max_concurrent_platform |-> 2, cooldown_seconds |-> 0,
       block_duration_seconds |-> 3600] }

requests_per_minute == config.requests_per_minute
requests_per_hour == config.requests_per_hour
max_concurrent_platform == config.max_concurrent_platform
cooldown_seconds == config.cooldown_seconds
block_duration_seconds == config.block_duration_seconds

\* the sliding windows of _check_rate_limits and _cleanup_old_requests
MinuteWindow == 60
HourWindow == 3600

-----------------------------------------------------------------------------
(* Data model *)

\* dataclass UserRateLimit: a fresh record
UserRateLimit == [requests |-> <<>>, last_request |-> 0, blocked_until |-> 0]

\* defaultdict.__getitem__: reading a missing key stores a fresh record
Lookup(ul, user_id) ==
    IF user_id \in DOMAIN ul THEN ul ELSE (user_id :> UserRateLimit) @@ ul

\* [t for t in requests if t > bound]
Newer(requests, bound) == SelectSeq(requests, LAMBDA t : t > bound)

-----------------------------------------------------------------------------
(* RateLimiter: each operator takes the state it reads and returns the     *)
(* state it leaves together with its result.                               *)

\* mutant: the block still counts at the instant blocked_until
_is_blocked_inclusive(ul, user_id, current_time) ==
    LET ul1 == Lookup(ul, user_id)
        limit_data == ul1[user_id]
    IN  IF limit_data.blocked_until >= current_time
        THEN [user_limits |-> ul1, is_blocked |-> TRUE,
              seconds_remaining |-> limit_data.blocked_until - current_time]
        ELSE [user_limits |-> ul1, is_blocked |-> FALSE, seconds_remaining |-> 0]

_is_blocked(ul, user_id, current_time) ==
    LET ul1 == Lookup(ul, user_id)
        limit_data == ul1[user_id]
    IN  IF limit_data.blocked_until > current_time
        THEN [user_limits |-> ul1, is_blocked |-> TRUE,
              seconds_remaining |-> limit_data.blocked_until - current_time]
        ELSE [user_limits |-> ul1, is_blocked |-> FALSE, seconds_remaining |-> 0]

_check_cooldown(ul, user_id, current_time) ==
    IF cooldown_seconds = 0
    THEN [user_limits |-> ul, in_cooldown |-> FALSE, seconds_remaining |-> 0]
    ELSE LET ul1 == Lookup(ul, user_id)
             limit_data == ul1[user_id]
             time_since_last == current_time - limit_data.last_request
         IN  IF /\ limit_data.last_request > 0
                /\ Len(limit_data.requests) > 0
                /\ time_since_last < cooldown_seconds
             THEN [user_limits |-> ul1, in_cooldown |-> TRUE,
                   seconds_remaining |-> cooldown_seconds - time_since_last]
             ELSE [user_limits |-> ul1, in_cooldown |-> FALSE,
                   seconds_remaining |-> 0]

\* mutant: the limits are violated only above the limit (> for >=)
_check_rate_limits_above(ul, user_id, current_time) ==
    LET ul1 == Lookup(ul, user_id)
        recent_requests == Newer(ul1[user_id].requests, current_time - HourWindow)
        ul2 == [ul1 EXCEPT ![user_id].requests = recent_requests]
        requests_last_minute ==
            Len(Newer(recent_requests, current_time - MinuteWindow))
        blocked == [ul2 EXCEPT ![user_id].blocked_until =
                                   current_time + block_duration_seconds]
    IN  IF requests_last_minute > requests_per_minute
        THEN [user_limits |-> blocked, is_allowed |-> FALSE, error |-> "minute"]
        ELSE IF Len(recent_requests) > requests_per_hour
        THEN [user_limits |-> blocked, is_allowed |-> FALSE, error |-> "hour"]
        ELSE [user_limits |-> ul2, is_allowed |-> TRUE, error |-> "none"]

\* mutant: the per-hour limit is checked before the per-minute limit
_check_rate_limits_hour_first(ul, user_id, current_time) ==
    LET ul1 == Lookup(ul, user_id)
        recent_requests == Newer(ul1[user_id].requests, current_time - HourWindow)
        ul2 == [ul1 EXCEPT ![user_id].requests = recent_requests]
        requests_last_minute ==
            Len(Newer(recent_requests, current_time - MinuteWindow))
        blocked == [ul2 EXCEPT ![user_id].blocked_until =
                                   current_time + block_duration_seconds]
    IN  IF Len(recent_requests) >= requests_per_hour
        THEN [user_limits |-> blocked, is_allowed |-> FALSE, error |-> "hour"]
        ELSE IF requests_last_minute >= requests_per_minute
        THEN [user_limits |-> blocked, is_allowed |-> FALSE, error |-> "minute"]
        ELSE [user_limits |-> ul2, is_allowed |-> TRUE, error |-> "none"]

\* mutant: a denied attempt is recorded as a request
_check_rate_limits_recording(ul, user_id, current_time) ==
    LET ul1 == Lookup(ul, user_id)
        recent_requests == Newer(ul1[user_id].requests, current_time - HourWindow)
        ul2 == [ul1 EXCEPT ![user_id].requests = recent_requests]
        requests_last_minute ==
            Len(Newer(recent_requests, current_time - MinuteWindow))
        blocked == [ul2 EXCEPT ![user_id].blocked_until =
                                   current_time + block_duration_seconds,
                               ![user_id].requests = Append(recent_requests, current_time)]
    IN  IF requests_last_minute >= requests_per_minute
        THEN [user_limits |-> blocked, is_allowed |-> FALSE, error |-> "minute"]
        ELSE IF Len(recent_requests) >= requests_per_hour
        THEN [user_limits |-> blocked, is_allowed |-> FALSE, error |-> "hour"]
        ELSE [user_limits |-> ul2, is_allowed |-> TRUE, error |-> "none"]

_check_rate_limits(ul, user_id, current_time) ==
    LET ul1 == Lookup(ul, user_id)
        minute_ago == current_time - MinuteWindow
        hour_ago == current_time - HourWindow
        recent_requests == Newer(ul1[user_id].requests, hour_ago)
        ul2 == [ul1 EXCEPT ![user_id].requests = recent_requests]
        requests_last_minute == Len(Newer(recent_requests, minute_ago))
        blocked == [ul2 EXCEPT ![user_id].blocked_until =
                                   current_time + block_duration_seconds]
    IN  IF requests_last_minute >= requests_per_minute
        THEN [user_limits |-> blocked, is_allowed |-> FALSE, error |-> "minute"]
        ELSE IF Len(recent_requests) >= requests_per_hour
        THEN [user_limits |-> blocked, is_allowed |-> FALSE, error |-> "hour"]
        ELSE [user_limits |-> ul2, is_allowed |-> TRUE, error |-> "none"]

\* mutant: the platform is full only above the maximum (> for >=)
check_platform_capacity_above(cq) == ~ (cq > max_concurrent_platform)

\* the body of check_platform_capacity's lock region
check_platform_capacity(cq) == ~ (cq >= max_concurrent_platform)

\* acquire's "Record request" (lines 201-205)
RecordRequest(ul, user_id, current_time) ==
    LET ul1 == Lookup(ul, user_id)
    IN  [ul1 EXCEPT ![user_id].requests = Append(@, current_time),
                    ![user_id].last_request = current_time]

\* mutant: the request is recorded before the platform capacity is checked
acquire_recording_first(ul, cq, user_id, current_time) ==
    LET b == _is_blocked(ul, user_id, current_time)
        c == _check_cooldown(b.user_limits, user_id, current_time)
        r == _check_rate_limits(c.user_limits, user_id, current_time)
    IN  IF b.is_blocked
        THEN [user_limits |-> b.user_limits, concurrent_queries |-> cq,
              is_allowed |-> FALSE, error |-> "blocked"]
        ELSE IF c.in_cooldown
        THEN [user_limits |-> c.user_limits, concurrent_queries |-> cq,
              is_allowed |-> FALSE, error |-> "cooldown"]
        ELSE IF ~ r.is_allowed
        THEN [user_limits |-> r.user_limits, concurrent_queries |-> cq,
              is_allowed |-> FALSE, error |-> r.error]
        ELSE IF ~ check_platform_capacity(cq)
        THEN [user_limits |-> RecordRequest(r.user_limits, user_id, current_time),
              concurrent_queries |-> cq,
              is_allowed |-> FALSE, error |-> "capacity"]
        ELSE [user_limits |-> RecordRequest(r.user_limits, user_id, current_time),
              concurrent_queries |-> cq + 1,
              is_allowed |-> TRUE, error |-> "none"]

\* acquire, run from its first statement to its return
acquire(ul, cq, user_id, current_time) ==
    LET b == _is_blocked(ul, user_id, current_time)
        c == _check_cooldown(b.user_limits, user_id, current_time)
        r == _check_rate_limits(c.user_limits, user_id, current_time)
    IN  IF b.is_blocked
        THEN [user_limits |-> b.user_limits, concurrent_queries |-> cq,
              is_allowed |-> FALSE, error |-> "blocked"]
        ELSE IF c.in_cooldown
        THEN [user_limits |-> c.user_limits, concurrent_queries |-> cq,
              is_allowed |-> FALSE, error |-> "cooldown"]
        ELSE IF ~ r.is_allowed
        THEN [user_limits |-> r.user_limits, concurrent_queries |-> cq,
              is_allowed |-> FALSE, error |-> r.error]
        ELSE IF ~ check_platform_capacity(cq)
        THEN [user_limits |-> r.user_limits, concurrent_queries |-> cq,
              is_allowed |-> FALSE, error |-> "capacity"]
        ELSE [user_limits |-> RecordRequest(r.user_limits, user_id, current_time),
              concurrent_queries |-> cq + 1,
              is_allowed |-> TRUE, error |-> "none"]

\* mutants: release without the floor at 0; release that does not decrement
release_unfloored(cq) == cq - 1
release_kept(cq) == cq

\* the body of release's lock region
release(cq) == IF cq > 0 THEN cq - 1 ELSE cq

\* mutant: the sweep deletes every record whose pruned list is empty
_cleanup_old_requests_empty(ul, current_time) ==
    LET hour_ago == current_time - HourWindow
        pruned(u) == Newer(ul[u].requests, hour_ago)
        kept == {u \in DOMAIN ul : pruned(u) # <<>>}
    IN  [u \in kept |-> [ul[u] EXCEPT !.requests = pruned(u)]]

\* _cleanup_old_requests: the periodic sweep
_cleanup_old_requests(ul, current_time) ==
    LET hour_ago == current_time - HourWindow
        pruned(u) == Newer(ul[u].requests, hour_ago)
        kept == {u \in DOMAIN ul :
                    ~ (pruned(u) = <<>> /\ current_time - ul[u].last_request > HourWindow)}
    IN  [u \in kept |-> [ul[u] EXCEPT !.requests = pruned(u)]]

\* get_user_stats: the state it leaves and the dict it returns
get_user_stats(ul, user_id, current_time) ==
    LET ul1 == Lookup(ul, user_id)
        recent_requests == Newer(ul1[user_id].requests, current_time - HourWindow)
        requests_last_minute ==
            Len(Newer(recent_requests, current_time - MinuteWindow))
        b == _is_blocked(ul1, user_id, current_time)
        c == _check_cooldown(b.user_limits, user_id, current_time)
    IN  [user_limits |-> c.user_limits,
         requests_last_minute |-> requests_last_minute,
         requests_last_hour |-> Len(recent_requests),
         is_blocked |-> b.is_blocked,
         in_cooldown |-> c.in_cooldown]

\* get_platform_stats
get_platform_stats(ul, cq) ==
    [concurrent_queries |-> cq,
     max_concurrent |-> max_concurrent_platform,
     available_slots |-> IF max_concurrent_platform - cq > 0
                         THEN max_concurrent_platform - cq ELSE 0,
     active_users |-> Cardinality(DOMAIN ul)]

-----------------------------------------------------------------------------
(* History kept for stating the claims *)

NoCall == [op |-> "none", user |-> "none", is_allowed |-> FALSE,
           error |-> "none", cq_before |-> 0]

Call(op, user_id, is_allowed, error) ==
    [op |-> op, user |-> user_id, is_allowed |-> is_allowed,
     error |-> error, cq_before |-> concurrent_queries]

\* the admitted instants of the trailing hour
Trailing(log, current_time) == Newer(log, current_time - HourWindow)

-----------------------------------------------------------------------------
(* Spec: the limiter's API, called in any order while time passes *)

Init ==
    /\ config \in Configs
    /\ now = Epoch
    /\ user_limits = << >>
    /\ concurrent_queries = 0
    /\ concurrent_lock = NoTask
    /\ last = NoCall
    /\ admitted = [u \in Users |-> <<>>]
    /\ ticks = 0
    /\ calls = 0
    /\ running = NoTask
    /\ tasks = << >>
    /\ reqs = << >>
    /\ cache_dir = << >>
    /\ written = << >>
    /\ cache_last = << >>

Acquire(user_id) ==
    LET a == acquire(user_limits, concurrent_queries, user_id, now)
    IN  /\ calls < MaxCalls
        /\ calls' = calls + 1
        /\ user_limits' = a.user_limits
        /\ concurrent_queries' = a.concurrent_queries
        /\ last' = Call("acquire", user_id, a.is_allowed, a.error)
        /\ admitted' = IF a.is_allowed
                       THEN [admitted EXCEPT ![user_id] = Append(@, now)]
                       ELSE admitted
        /\ UNCHANGED <<cache_vars, config, now, concurrent_lock, ticks, running, tasks, reqs>>

Release ==
    /\ concurrent_queries' = release(concurrent_queries)
    /\ last' = Call("release", "none", TRUE, "none")
    /\ UNCHANGED <<cache_vars, config, now, user_limits, concurrent_lock, admitted, ticks,
                   calls, running, tasks, reqs>>

Sweep ==
    /\ user_limits' = _cleanup_old_requests(user_limits, now)
    /\ UNCHANGED <<cache_vars, config, now, concurrent_queries, concurrent_lock, last,
                   admitted, ticks, calls, running, tasks, reqs>>

GetUserStats(user_id) ==
    /\ user_limits' = get_user_stats(user_limits, user_id, now).user_limits
    /\ UNCHANGED <<cache_vars, config, now, concurrent_queries, concurrent_lock, last,
                   admitted, ticks, calls, running, tasks, reqs>>

Tick(d) ==
    /\ ticks < MaxTicks
    /\ ticks' = ticks + 1
    /\ now' = now + d
    /\ admitted' = [u \in Users |-> Trailing(admitted[u], now + d)]
    /\ UNCHANGED <<cache_vars, config, user_limits, concurrent_queries, concurrent_lock,
                   last, calls, running, tasks, reqs>>

Next ==
    \/ \E u \in Users : Acquire(u)
    \/ Release
    \/ Sweep
    \/ \E u \in Users : GetUserStats(u)
    \/ \E d \in TickSteps : Tick(d)

Spec == Init /\ [][Next]_vars

-----------------------------------------------------------------------------
(* SpecCooldown: the limiter's API with a cooldown between requests *)

\* limiters with cooldown_seconds > 0: a cooldown of one second, and one that
\* outlasts the sweep's one-hour horizon
CooldownConfigs ==
    { [requests_per_minute |-> 2, requests_per_hour |-> 3,
       max_concurrent_platform |-> 2, cooldown_seconds |-> 1,
       block_duration_seconds |-> 60],
      [requests_per_minute |-> 2, requests_per_hour |-> 3,
       max_concurrent_platform |-> 2, cooldown_seconds |-> 3700,
       block_duration_seconds |-> 60] }

InitCooldown ==
    /\ config \in CooldownConfigs
    /\ now = Epoch
    /\ user_limits = << >>
    /\ concurrent_queries = 0
    /\ concurrent_lock = NoTask
    /\ last = NoCall
    /\ admitted = [u \in Users |-> <<>>]
    /\ ticks = 0
    /\ calls = 0
    /\ running = NoTask
    /\ tasks = << >>
    /\ reqs = << >>
    /\ cache_dir = << >>
    /\ written = << >>
    /\ cache_last = << >>

\* time.time() advances; the history keeps every admitted instant
TickOn(d) ==
    /\ ticks < MaxTicks
    /\ ticks' = ticks + 1
    /\ now' = now + d
    /\ UNCHANGED <<cache_vars, config, user_limits, concurrent_queries,
                   concurrent_lock, last, admitted, calls, running, tasks, reqs>>

NextCooldown ==
    \/ \E u \in Users : Acquire(u)
    \/ Release
    \/ Sweep
    \/ \E u \in Users : GetUserStats(u)
    \/ \E d \in TickSteps : TickOn(d)

SpecCooldown == InitCooldown /\ [][NextCooldown]_vars

-----------------------------------------------------------------------------
(* SpecLive: the limiter's API called without end while the clock runs up  *)
(* to a horizon; SpecLiveFair adds that time advances, that every user     *)
(* keeps calling acquire and that slots are released.                      *)

\* the clock runs this far past the epoch
LiveSpan == 7200
Horizon == Epoch + LiveSpan

\* the clock advances by quarters of an hour
LiveTickSteps == {900}

\* the user who keeps calling
LiveUsers == {"u1"}

\* acquire, called any number of times
LiveAcquire(user_id) ==
    LET a == acquire(user_limits, concurrent_queries, user_id, now)
    IN  /\ user_limits' = a.user_limits
        /\ concurrent_queries' = a.concurrent_queries
        /\ last' = Call("acquire", user_id, a.is_allowed, a.error)
        /\ admitted' = IF a.is_allowed
                       THEN [admitted EXCEPT ![user_id] = Append(@, now)]
                       ELSE admitted
        /\ UNCHANGED <<cache_vars, config, now, concurrent_lock, ticks, calls,
                       running, tasks, reqs>>

LiveTick(d) ==
    /\ now + d <= Horizon
    /\ now' = now + d
    /\ admitted' = [u \in Users |-> Trailing(admitted[u], now + d)]
    /\ UNCHANGED <<cache_vars, config, user_limits, concurrent_queries, concurrent_lock,
                   last, ticks, calls, running, tasks, reqs>>

NextLive ==
    \/ \E u \in LiveUsers : LiveAcquire(u)
    \/ Release
    \/ Sweep
    \/ \E u \in LiveUsers : GetUserStats(u)
    \/ \E d \in LiveTickSteps : LiveTick(d)

SpecLive == Init /\ [][NextLive]_vars

SpecLiveFair ==
    /\ SpecLive
    /\ WF_vars(\E d \in LiveTickSteps : LiveTick(d))
    /\ \A u \in LiveUsers : WF_vars(LiveAcquire(u))
    /\ WF_vars(Release)

-----------------------------------------------------------------------------
(* SpecSched: concurrent tasks inside acquire and release.                 *)
(*                                                                         *)
(* asyncio runs one task at a time and switches tasks only where the       *)
(* running task suspends.  Each statement of acquire/release is one step.  *)
(* "async with self.concurrent_lock" takes the lock at once when it is     *)
(* free (asyncio.Lock.acquire returns without suspending); were it held,   *)
(* the step would wait.  No body of a lock region awaits, so the lock is   *)
(* free whenever another task gets to run.                                 *)

Tasks == {"t1", "t2", "t3"}

\* mutant: the task suspends between the capacity check and the increment
YieldPoints_switch == {"increment_lock"}

\* The positions inside acquire/release at which the running task suspends
\* and lets the event loop run another task: none.  acquire awaits
\* check_platform_capacity (193), a coroutine, and the lock (162, 198);
\* release awaits the lock (211); none of these suspends.
YieldPoints == {}

IdleTask == [pc |-> "idle", user |-> "none", cq_before |-> 0]

InitSched ==
    /\ config \in Configs
    /\ now = Epoch
    /\ user_limits = << >>
    /\ concurrent_queries = 0
    /\ concurrent_lock = NoTask
    /\ last = NoCall
    /\ admitted = [u \in Users |-> <<>>]
    /\ ticks = 0
    /\ calls = 0
    /\ running = NoTask
    /\ tasks = [t \in Tasks |-> IdleTask]
    /\ reqs = << >>
    /\ cache_dir = << >>
    /\ written = << >>
    /\ cache_last = << >>

\* the task may execute its next statement
Runnable(t) ==
    \/ running = t
    \/ running = NoTask /\ tasks[t].pc \in YieldPoints

\* move to the statement pc2, suspending there if it is a yield point
Goto(t, pc2) ==
    /\ tasks' = [tasks EXCEPT ![t].pc = pc2]
    /\ running' = IF pc2 \in YieldPoints THEN NoTask ELSE t

\* return from the call to the caller, which gives the loop back
Return(t, op, is_allowed, error) ==
    /\ tasks' = [tasks EXCEPT ![t] = IdleTask]
    /\ running' = NoTask
    /\ last' = [op |-> op, user |-> tasks[t].user, is_allowed |-> is_allowed,
                error |-> error, cq_before |-> tasks[t].cq_before]

\* a task calls acquire(user_id)
CallAcquire(t, user_id) ==
    /\ running = NoTask
    /\ tasks[t].pc = "idle"
    /\ calls < MaxCalls
    /\ calls' = calls + 1
    /\ tasks' = [tasks EXCEPT ![t] = [pc |-> "is_blocked", user |-> user_id,
                                      cq_before |-> concurrent_queries]]
    /\ running' = t
    /\ UNCHANGED <<cache_vars, config, now, user_limits, concurrent_queries, concurrent_lock,
                   last, admitted, ticks, reqs>>

\* a task calls release()
CallRelease(t) ==
    /\ running = NoTask
    /\ tasks[t].pc = "idle"
    /\ tasks' = [tasks EXCEPT ![t] = [pc |-> "release_lock", user |-> "none",
                                      cq_before |-> concurrent_queries]]
    /\ running' = t
    /\ UNCHANGED <<cache_vars, config, now, user_limits, concurrent_queries, concurrent_lock,
                   last, admitted, ticks, calls, reqs>>

\* line 178-180
StepIsBlocked(t) ==
    LET b == _is_blocked(user_limits, tasks[t].user, now)
    IN  /\ Runnable(t)
        /\ tasks[t].pc = "is_blocked"
        /\ user_limits' = b.user_limits
        /\ IF b.is_blocked
           THEN Return(t, "acquire", FALSE, "blocked")
           ELSE Goto(t, "check_cooldown") /\ UNCHANGED last
        /\ UNCHANGED <<cache_vars, config, now, concurrent_queries, concurrent_lock,
                       admitted, ticks, calls, reqs>>

\* line 183-185
StepCheckCooldown(t) ==
    LET c == _check_cooldown(user_limits, tasks[t].user, now)
    IN  /\ Runnable(t)
        /\ tasks[t].pc = "check_cooldown"
        /\ user_limits' = c.user_limits
        /\ IF c.in_cooldown
           THEN Return(t, "acquire", FALSE, "cooldown")
           ELSE Goto(t, "check_rate_limits") /\ UNCHANGED last
        /\ UNCHANGED <<cache_vars, config, now, concurrent_queries, concurrent_lock,
                       admitted, ticks, calls, reqs>>

\* line 188-190
StepCheckRateLimits(t) ==
    LET r == _check_rate_limits(user_limits, tasks[t].user, now)
    IN  /\ Runnable(t)
        /\ tasks[t].pc = "check_rate_limits"
        /\ user_limits' = r.user_limits
        /\ IF ~ r.is_allowed
           THEN Return(t, "acquire", FALSE, r.error)
           ELSE Goto(t, "capacity_lock") /\ UNCHANGED last
        /\ UNCHANGED <<cache_vars, config, now, concurrent_queries, concurrent_lock,
                       admitted, ticks, calls, reqs>>

\* line 162 (called from 193): enter the lock region
StepCapacityLock(t) ==
    /\ Runnable(t)
    /\ tasks[t].pc = "capacity_lock"
    /\ concurrent_lock = NoTask
    /\ concurrent_lock' = t
    /\ Goto(t, "capacity_check")
    /\ UNCHANGED <<cache_vars, config, now, user_limits, concurrent_queries, last,
                   admitted, ticks, calls, reqs>>

\* line 163-165 and 194-195: the region's body; leaving it frees the lock
StepCapacityCheck(t) ==
    /\ Runnable(t)
    /\ tasks[t].pc = "capacity_check"
    /\ concurrent_lock = t
    /\ concurrent_lock' = NoTask
    /\ IF ~ check_platform_capacity(concurrent_queries)
       THEN Return(t, "acquire", FALSE, "capacity")
       ELSE Goto(t, "increment_lock") /\ UNCHANGED last
    /\ UNCHANGED <<cache_vars, config, now, user_limits, concurrent_queries,
                   admitted, ticks, calls, reqs>>

\* line 198
StepIncrementLock(t) ==
    /\ Runnable(t)
    /\ tasks[t].pc = "increment_lock"
    /\ concurrent_lock = NoTask
    /\ concurrent_lock' = t
    /\ Goto(t, "increment")
    /\ UNCHANGED <<cache_vars, config, now, user_limits, concurrent_queries, last,
                   admitted, ticks, calls, reqs>>

\* line 199
StepIncrement(t) ==
    /\ Runnable(t)
    /\ tasks[t].pc = "increment"
    /\ concurrent_lock = t
    /\ concurrent_lock' = NoTask
    /\ concurrent_queries' = concurrent_queries + 1
    /\ Goto(t, "record")
    /\ UNCHANGED <<cache_vars, config, now, user_limits, last, admitted, ticks, calls, reqs>>

\* line 201-207
StepRecord(t) ==
    /\ Runnable(t)
    /\ tasks[t].pc = "record"
    /\ user_limits' = RecordRequest(user_limits, tasks[t].user, now)
    /\ admitted' = [admitted EXCEPT ![tasks[t].user] = Append(@, now)]
    /\ Return(t, "acquire", TRUE, "none")
    /\ UNCHANGED <<cache_vars, config, now, concurrent_queries, concurrent_lock,
                   ticks, calls, reqs>>

\* line 211
StepReleaseLock(t) ==
    /\ Runnable(t)
    /\ tasks[t].pc = "release_lock"
    /\ concurrent_lock = NoTask
    /\ concurrent_lock' = t
    /\ Goto(t, "release")
    /\ UNCHANGED <<cache_vars, config, now, user_limits, concurrent_queries, last,
                   admitted, ticks, calls, reqs>>

\* line 212-213
StepRelease(t) ==
    /\ Runnable(t)
    /\ tasks[t].pc = "release"
    /\ concurrent_lock = t
    /\ concurrent_lock' = NoTask
    /\ concurrent_queries' = release(concurrent_queries)
    /\ Return(t, "release", TRUE, "none")
    /\ UNCHANGED <<cache_vars, config, now, user_limits, admitted, ticks, calls, reqs>>

NextSched ==
    \/ \E t \in Tasks, u \in Users : CallAcquire(t, u)
    \/ \E t \in Tasks : CallRelease(t)
    \/ \E t \in Tasks : StepIsBlocked(t)
    \/ \E t \in Tasks : StepCheckCooldown(t)
    \/ \E t \in Tasks : StepCheckRateLimits(t)
    \/ \E t \in Tasks : StepCapacityLock(t)
    \/ \E t \in Tasks : StepCapacityCheck(t)
    \/ \E t \in Tasks : StepIncrementLock(t)
    \/ \E t \in Tasks : StepIncrement(t)
    \/ \E t \in Tasks : StepRecord(t)
    \/ \E t \in Tasks : StepReleaseLock(t)
    \/ \E t \in Tasks : StepRelease(t)

SpecSched == InitSched /\ [][NextSched]_vars

\* the tasks that passed the capacity check and have not incremented yet
PassedCheck == {t \in Tasks : tasks[t].pc \in {"increment_lock", "increment"}}

\* a task that is not running never holds the lock
LockDiscipline ==
    /\ concurrent_lock # NoTask => concurrent_lock = running
    /\ running = NoTask => \A t \in Tasks : tasks[t].pc = "idle"

-----------------------------------------------------------------------------
(* SpecAssist: concurrent requests running YouTubeSummarizerAgent.assist.  *)
(*                                                                         *)
(* A request's position is the await it is suspended at; one step runs it  *)
(* from there to its next suspension.  The awaits of the response handler, *)
(* the transcript service and the summarizer are suspensions: there the    *)
(* awaited call returns, raises, or the task is cancelled.  acquire and    *)
(* release do not suspend (SpecSched), so they run inside a step.          *)

Requests == {"r1", "r2", "r3"}

\* what the prompt is: rejected by the validator (96-103), a greeting or
\* identity question (106-113), without a YouTube URL (116-125), or a video
Kinds == {"unsafe", "greeting", "no_url", "video"}

\* how an awaited call ends
Outcomes == {"ok", "raise", "cancel"}

\* the awaits before the guarded section: stream_security_error (98-102),
\* stream_greeting (108-112 and 120-124), stream_rate_limit_error (130-134)
ReplyAwaits == {"security_error", "greeting", "rate_limit_error"}

\* the awaits inside "try: ... finally:" (137-228)
GuardedAwaits == {"invalid_url", "cache_hit", "transcript", "transcript_error",
                  "summarize", "complete"}

\* _get_user_id (41-53): the session each request comes from
UserOf(r) == IF r = "r3" THEN "u2" ELSE "u1"

IdleRequest == [pc |-> "idle", user |-> "none", acquired |-> "none",
                releases |-> 0, exit |-> "none"]

\* the RateLimiter the agent constructs (agent.py 33-39), with small counts
AssistConfig ==
    [requests_per_minute |-> 2, requests_per_hour |-> 3,
     max_concurrent_platform |-> 2, cooldown_seconds |-> 0,
     block_duration_seconds |-> 60]

InitAssist ==
    /\ config = AssistConfig
    /\ now = Epoch
    /\ user_limits = << >>
    /\ concurrent_queries = 0
    /\ concurrent_lock = NoTask
    /\ last = NoCall
    /\ admitted = [u \in Users |-> <<>>]
    /\ ticks = 0
    /\ calls = 0
    /\ running = NoTask
    /\ tasks = << >>
    /\ reqs = [r \in Requests |-> IdleRequest]
    /\ cache_dir = << >>
    /\ written = << >>
    /\ cache_last = << >>

\* where a prompt of each kind first suspends (or calls acquire)
FirstAwait(kind) ==
    CASE kind = "unsafe" -> "security_error"
      [] kind = "greeting" -> "greeting"
      [] kind = "no_url" -> "greeting"
      [] kind = "video" -> "acquire"

\* lines 92-127: a request enters assist
Begin(r, user_id, kind) ==
    /\ reqs[r].pc \in {"idle", "finished"}
    /\ calls < MaxRequests
    /\ calls' = calls + 1
    /\ reqs' = [reqs EXCEPT ![r] = [IdleRequest EXCEPT !.pc = FirstAwait(kind),
                                                       !.user = user_id]]
    /\ UNCHANGED <<cache_vars, config, now, user_limits, concurrent_queries, concurrent_lock,
                   last, admitted, ticks, running, tasks>>

\* where the guarded section first suspends: the video id is invalid
\* (140-145), the cache has the summary (148-166), or it has not (169-173)
AfterAcquire == {"invalid_url", "cache_hit", "transcript"}

\* lines 128-135 and the statements up to the next await
AssistAcquire(r, next) ==
    LET a == acquire(user_limits, concurrent_queries, reqs[r].user, now)
    IN  /\ reqs[r].pc = "acquire"
        /\ user_limits' = a.user_limits
        /\ concurrent_queries' = a.concurrent_queries
        /\ reqs' = IF a.is_allowed
                   THEN [reqs EXCEPT ![r].pc = next, ![r].acquired = "admitted"]
                   ELSE [reqs EXCEPT ![r].pc = "rate_limit_error",
                                     ![r].acquired = "denied"]
        /\ UNCHANGED <<cache_vars, config, now, concurrent_lock, last, admitted, ticks,
                       calls, running, tasks>>

\* the request is over: assist returned ("return"), the exception left
\* assist ("raise") or the task was cancelled ("cancel"); how an admitted
\* request ended is kept
Finished(r, exit, released) ==
    [reqs EXCEPT ![r].pc = "finished", ![r].user = "none",
                 ![r].exit = IF reqs[r].acquired = "admitted" THEN exit ELSE "none",
                 ![r].releases = @ + released]

\* an await outside the guarded section ends; a raise goes to the outer
\* "except Exception" (230), a cancellation leaves assist
Reply(r, outcome) ==
    /\ reqs[r].pc \in ReplyAwaits
    /\ reqs' = CASE outcome = "ok" -> Finished(r, "return", 0)
                 [] outcome = "raise" -> [reqs EXCEPT ![r].pc = "handler"]
                 [] outcome = "cancel" -> Finished(r, "cancel", 0)
    /\ UNCHANGED <<cache_vars, config, now, user_limits, concurrent_queries, concurrent_lock,
                   last, admitted, ticks, calls, running, tasks>>

\* the awaits a guarded await can be followed by when it returns; none
\* means assist returns from inside the try
FollowedBy(pc) ==
    CASE pc = "transcript" -> {"transcript_error", "summarize"}
      [] pc = "summarize" -> {"complete"}
      [] OTHER -> {}

\* mutant: release at the end of the try block instead of in a finally clause
finally_releases_on_return(exit) == exit = "return"

\* lines 226-228: the finally clause calls release however the try is left
finally_releases(exit) == TRUE

\* a guarded await returns and the work goes on to its next await
Work(r, next) ==
    /\ reqs[r].pc \in GuardedAwaits
    /\ next \in FollowedBy(reqs[r].pc)
    /\ reqs' = [reqs EXCEPT ![r].pc = next]
    /\ UNCHANGED <<cache_vars, config, now, user_limits, concurrent_queries, concurrent_lock,
                   last, admitted, ticks, calls, running, tasks>>

\* the try is left: by a return (145, 166, 184, end of 224), by an exception
\* or by cancellation at the await; the finally clause runs, then a raise
\* goes on to the outer "except Exception" and a cancellation leaves assist
Leave(r, exit) ==
    /\ reqs[r].pc \in GuardedAwaits
    /\ exit = "return" => FollowedBy(reqs[r].pc) = {}
    /\ IF finally_releases(exit)
       THEN /\ concurrent_queries' = release(concurrent_queries)
            /\ reqs' = IF exit = "raise"
                       THEN [reqs EXCEPT ![r].pc = "handler",
                                         ![r].releases = @ + 1]
                       ELSE Finished(r, exit, 1)
       ELSE /\ UNCHANGED concurrent_queries
            /\ reqs' = IF exit = "raise"
                       THEN [reqs EXCEPT ![r].pc = "handler"]
                       ELSE Finished(r, exit, 0)
    /\ UNCHANGED <<cache_vars, config, now, user_limits, concurrent_lock, last, admitted,
                   ticks, calls, running, tasks>>

\* lines 230-240: the outer handler streams the error, then calls release
HandlerReleases(r) ==
    /\ reqs[r].pc = "handler"
    /\ concurrent_queries' = release(concurrent_queries)
    /\ reqs' = Finished(r, "return", 1)
    /\ UNCHANGED <<cache_vars, config, now, user_limits, concurrent_lock, last, admitted,
                   ticks, calls, running, tasks>>

\* lines 232-237 raise or are cancelled: line 240 is not reached
HandlerFails(r, exit) ==
    /\ reqs[r].pc = "handler"
    /\ exit \in {"raise", "cancel"}
    /\ reqs' = Finished(r, exit, 0)
    /\ UNCHANGED <<cache_vars, config, now, user_limits, concurrent_queries, concurrent_lock,
                   last, admitted, ticks, calls, running, tasks>>

\* every step of a request that has entered assist
Progress(r) ==
    \/ \E next \in AfterAcquire : AssistAcquire(r, next)
    \/ \E outcome \in Outcomes : Reply(r, outcome)
    \/ \E next \in GuardedAwaits : Work(r, next)
    \/ \E exit \in {"return", "raise", "cancel"} : Leave(r, exit)
    \/ HandlerReleases(r)
    \/ \E exit \in {"raise", "cancel"} : HandlerFails(r, exit)

NextAssist ==
    \/ \E r \in Requests, kind \in Kinds : Begin(r, UserOf(r), kind)
    \/ \E r \in Requests : Progress(r)

SpecAssist == InitAssist /\ [][NextAssist]_vars

\* the event loop runs every task that can run
SpecAssistFair == SpecAssist /\ \A r \in Requests : WF_vars(Progress(r))

\* the requests inside the guarded section
InGuarded == {r \in Requests : reqs[r].pc \in GuardedAwaits}

-----------------------------------------------------------------------------
(* CacheManager: utils/cache.py *)

\* the cache calls one behaviour makes
MaxCacheOps == 3

\* the video ids callers pass; the empty string is a string like any other
Keys == {"", "a"}

\* clock advances of the cache's specification: a second, and an hour less
\* a second
CacheTickSteps == {1, 3599}

\* the CacheManager under test: CacheManager(ttl_hours=1); the agent (agent.py
\* 31) builds it with 168
CacheConfig == [ttl_hours |-> 1]
ttl_hours == CacheConfig.ttl_hours

\* Python values, as far as the cache handles them
None == [type |-> "NoneType"]
Text(s) == [type |-> "str", s |-> s]
Tuple(items) == [type |-> "tuple", items |-> items]
List(items) == [type |-> "list", items |-> items]
SetOf(items) == [type |-> "set", members |-> items]
Dict(d) == [type |-> "dict", d |-> d]

\* the text datetime.isoformat() produces for the instant t (line 117): a
\* str holding the calendar date and the time of day
isoformat(t) ==
    [type |-> "str", iso |-> [date |-> t \div 86400, time |-> t % 86400]]

\* datetime.fromisoformat (line 64): the instant a text denotes; any other
\* value raises
fromisoformat(v) ==
    IF v.type = "str" /\ "iso" \in DOMAIN v
    THEN [ok |-> TRUE, value |-> v.iso.date * 86400 + v.iso.time]
    ELSE [ok |-> FALSE, value |-> 0]

\* truth value of a Python value ("metadata or {}" 118, "if video_id:" 135)
Truthy(v) ==
    CASE v.type = "NoneType" -> FALSE
      [] v.type = "str" -> "iso" \in DOMAIN v \/ v.s # ""
      [] v.type = "dict" -> DOMAIN v.d # {}
      [] v.type \in {"list", "tuple"} -> v.items # << >>
      [] OTHER -> TRUE

\* what callers store, as <<summary, metadata>>: the metadata omitted, empty,
\* the agent's {'url': ...} (agent.py 221), with a tuple among the values,
\* with a set among the values
Payloads ==
    {<<"s1", None>>,
     <<"s2", Dict(<< >>)>>,
     <<"s1", Dict([url |-> Text("u")])>>,
     <<"s2", Dict([tags |-> Tuple(<<Text("x")>>)])>>,
     <<"s2", Dict([tags |-> SetOf({"x"})])>>}

\* json.dump (line 123): the JSON value written for a Python value; a value
\* JSON has no form for raises TypeError
RECURSIVE json_dump(_)
json_dump(v) ==
    CASE v.type = "NoneType" -> [ok |-> TRUE, json |-> [j |-> "null"]]
      [] v.type = "str" -> [ok |-> TRUE, json |-> [j |-> "string", str |-> v]]
      [] v.type \in {"list", "tuple"} ->
            LET enc == [i \in DOMAIN v.items |-> json_dump(v.items[i])]
            IN  [ok |-> \A i \in DOMAIN enc : enc[i].ok,
                 json |-> [j |-> "array",
                           items |-> [i \in DOMAIN enc |-> enc[i].json]]]
      [] v.type = "dict" ->
            LET enc == [k \in DOMAIN v.d |-> json_dump(v.d[k])]
            IN  [ok |-> \A k \in DOMAIN enc : enc[k].ok,
                 json |-> [j |-> "object",
                           members |-> [k \in DOMAIN enc |-> enc[k].json]]]
      [] OTHER -> [ok |-> FALSE, json |-> [j |-> "null"]]

\* the Python value json.load builds from a JSON value (lines 87, 160, 188)
RECURSIVE json_decode(_)
json_decode(json) ==
    CASE json.j = "null" -> None
      [] json.j = "string" -> json.str
      [] json.j = "array" ->
            List([i \in DOMAIN json.items |-> json_decode(json.items[i])])
      [] json.j = "object" ->
            Dict([k \in DOMAIN json.members |-> json_decode(json.members[k])])

\* a file's contents: a complete JSON document, or text that breaks off
\* inside one
Document(json) == [text |-> "json", doc |-> json]
Truncated == [text |-> "truncated"]

\* json.load: raises on text that is not a JSON document
json_load(file) ==
    IF file.text = "json"
    THEN [ok |-> TRUE, value |-> json_decode(file.doc)]
    ELSE [ok |-> FALSE, value |-> None]

\* lines 28-38: the SHA-256 digest of the video id, one per id
_get_cache_key(video_id) == <<"sha256", video_id>>

\* lines 40-51: the file of a video id inside cache_dir
_get_cache_path(video_id) == <<_get_cache_key(video_id), ".json">>

\* mutant: the time-to-live taken in days
_is_expired_days(timestamp, current) ==
    LET cached_time == fromisoformat(timestamp)
    IN  IF cached_time.ok
        THEN current > cached_time.value + ttl_hours * 86400
        ELSE TRUE

\* mutant: the time-to-live taken in minutes
_is_expired_minutes(timestamp, current) ==
    LET cached_time == fromisoformat(timestamp)
    IN  IF cached_time.ok
        THEN current > cached_time.value + ttl_hours * 60
        ELSE TRUE

\* lines 53-68: current is datetime.now(); a timestamp that does not parse
\* counts as expired
_is_expired(timestamp, current) ==
    LET cached_time == fromisoformat(timestamp)
    IN  IF cached_time.ok
        THEN current > cached_time.value + ttl_hours * 3600
        ELSE TRUE

\* dict.get(key, default) on what json.load returned; raises AttributeError
\* when that is not a dict
dict_get(data, key, default) ==
    IF data.type # "dict" THEN [ok |-> FALSE, value |-> None]
    ELSE [ok |-> TRUE,
          value |-> IF key \in DOMAIN data.d THEN data.d[key] ELSE default]

\* the body of the try blocks that read a file (86-90, 159-161, 187-189):
\* "raised" when json.load or data.get raises, else whether it is expired
Judge(file, current) ==
    LET loaded == json_load(file)
        timestamp == dict_get(loaded.value, "timestamp", Text(""))
    IN  IF ~ loaded.ok \/ ~ timestamp.ok THEN "raised"
        ELSE IF _is_expired(timestamp.value, current) THEN "expired"
        ELSE "valid"

\* Path.unlink
Unlink(dir, path) == [p \in DOMAIN dir \ {path} |-> dir[p]]

\* open(path, 'w') followed by writing the contents
WriteFile(dir, path, contents) ==
    [p \in DOMAIN dir \cup {path} |-> IF p = path THEN contents ELSE dir[p]]

\* mutant: an expired or unreadable record is reported missing but kept
get_keeping(dir, video_id, current) ==
    LET cache_path == _get_cache_path(video_id)
    IN  IF cache_path \notin DOMAIN dir
        THEN [cache_dir |-> dir, result |-> None]
        ELSE IF Judge(dir[cache_path], current) = "valid"
             THEN [cache_dir |-> dir,
                   result |-> json_load(dir[cache_path]).value]
             ELSE [cache_dir |-> dir, result |-> None]

\* mutant: a hit rewrites the record with the current time as its timestamp
get_refreshing(dir, video_id, current) ==
    LET cache_path == _get_cache_path(video_id)
    IN  IF cache_path \notin DOMAIN dir
        THEN [cache_dir |-> dir, result |-> None]
        ELSE IF Judge(dir[cache_path], current) = "valid"
             THEN LET data == json_load(dir[cache_path]).value
                      touched == Dict([data.d EXCEPT !["timestamp"] = isoformat(current)])
                  IN  [cache_dir |-> WriteFile(dir, cache_path,
                                               Document(json_dump(touched).json)),
                       result |-> data]
             ELSE [cache_dir |-> Unlink(dir, cache_path), result |-> None]

\* lines 70-101: the directory after the call, and the value returned
get(dir, video_id, current) ==
    LET cache_path == _get_cache_path(video_id)
    IN  IF cache_path \notin DOMAIN dir
        THEN [cache_dir |-> dir, result |-> None]
        ELSE CASE Judge(dir[cache_path], current) = "valid" ->
                    [cache_dir |-> dir,
                     result |-> json_load(dir[cache_path]).value]
               [] Judge(dir[cache_path], current) = "expired" ->
                    \* 90-93
                    [cache_dir |-> Unlink(dir, cache_path), result |-> None]
               [] Judge(dir[cache_path], current) = "raised" ->
                    \* 97-101
                    [cache_dir |-> Unlink(dir, cache_path), result |-> None]

\* mutant: "metadata and {}" for "metadata or {}"
cache_data_and(video_id, summary, metadata, current) ==
    Dict([video_id |-> Text(video_id),
          summary |-> Text(summary),
          timestamp |-> isoformat(current),
          metadata |-> IF Truthy(metadata) THEN Dict(<< >>) ELSE metadata])

\* lines 114-119: the dict set writes
cache_data(video_id, summary, metadata, current) ==
    Dict([video_id |-> Text(video_id),
          summary |-> Text(summary),
          timestamp |-> isoformat(current),
          metadata |-> IF Truthy(metadata) THEN metadata ELSE Dict(<< >>)])

\* how the storage answers open(cache_path, 'w')
Storage == {"ok", "unavailable"}

\* mutant: the write is not guarded by try/except
set_unguarded(dir, video_id, summary, metadata, current, storage) ==
    LET cache_path == _get_cache_path(video_id)
        dumped == json_dump(cache_data(video_id, summary, metadata, current))
    IN  IF storage = "unavailable"
        THEN [cache_dir |-> dir, raised |-> TRUE, stored |-> FALSE]
        ELSE IF dumped.ok
        THEN [cache_dir |-> WriteFile(dir, cache_path, Document(dumped.json)),
              raised |-> FALSE, stored |-> TRUE]
        ELSE [cache_dir |-> WriteFile(dir, cache_path, Truncated),
              raised |-> TRUE, stored |-> FALSE]

\* lines 103-126: the directory after the call, whether the call raised, and
\* whether the record was written. open(..., 'w') raises when the storage is
\* unavailable and the file stays as it was; otherwise it empties the file,
\* and json.dump raising part-way leaves the text it had written so far
set(dir, video_id, summary, metadata, current, storage) ==
    LET cache_path == _get_cache_path(video_id)
        dumped == json_dump(cache_data(video_id, summary, metadata, current))
    IN  IF storage = "unavailable"
        THEN [cache_dir |-> dir, raised |-> FALSE, stored |-> FALSE]
        ELSE IF dumped.ok
        THEN [cache_dir |-> WriteFile(dir, cache_path, Document(dumped.json)),
              raised |-> FALSE, stored |-> TRUE]
        ELSE [cache_dir |-> WriteFile(dir, cache_path, Truncated),
              raised |-> FALSE, stored |-> FALSE]

\* self.cache_dir.glob("*.json") (141, 151, 185)
glob(dir) == {p \in DOMAIN dir : p[2] = ".json"}

\* lines 128-142: video_id is None when the caller passes no key
clear(dir, video_id) ==
    IF Truthy(video_id)
    THEN LET cache_path == _get_cache_path(video_id.s)
         IN  IF cache_path \in DOMAIN dir THEN Unlink(dir, cache_path) ELSE dir
    ELSE [p \in DOMAIN dir \ glob(dir) |-> dir[p]]

\* mutant: the scan removes what it counts as expired
get_cache_stats_purging(dir, current) ==
    LET cache_files == glob(dir)
        valid == {p \in cache_files : Judge(dir[p], current) = "valid"}
    IN  [cache_dir |-> [p \in DOMAIN dir \ (cache_files \ valid) |-> dir[p]],
         result |-> [total_entries |-> Cardinality(cache_files),
                     valid_entries |-> Cardinality(valid),
                     expired_entries |-> Cardinality(cache_files \ valid)]]

\* lines 144-174 (the sizes in bytes are left out)
get_cache_stats(dir, current) ==
    LET cache_files == glob(dir)
        valid_count ==
            Cardinality({p \in cache_files : Judge(dir[p], current) = "valid"})
        expired_count ==
            Cardinality({p \in cache_files : Judge(dir[p], current) = "expired"})
            + Cardinality({p \in cache_files : Judge(dir[p], current) = "raised"})
    IN  [cache_dir |-> dir,
         result |-> [total_entries |-> Cardinality(cache_files),
                     valid_entries |-> valid_count,
                     expired_entries |-> expired_count]]

\* mutant: a file that cannot be read is counted but not removed
cleanup_expired_keeping(dir, current) ==
    LET expired == {p \in glob(dir) : Judge(dir[p], current) = "expired"}
        corrupt == {p \in glob(dir) : Judge(dir[p], current) = "raised"}
    IN  [cache_dir |-> [p \in DOMAIN dir \ expired |-> dir[p]],
         result |-> Cardinality(expired) + Cardinality(corrupt)]

\* mutant: every file is removed, like clear()
cleanup_expired_all(dir, current) ==
    [cache_dir |-> [p \in DOMAIN dir \ glob(dir) |-> dir[p]],
     result |-> Cardinality(glob(dir))]

\* lines 176-197: the directory after the call, and removed_count
cleanup_expired(dir, current) ==
    LET expired == {p \in glob(dir) : Judge(dir[p], current) = "expired"}
        corrupt == {p \in glob(dir) : Judge(dir[p], current) = "raised"}
    IN  [cache_dir |-> [p \in DOMAIN dir \ (expired \cup corrupt) |-> dir[p]],
         result |-> Cardinality(expired) + Cardinality(corrupt)]

-----------------------------------------------------------------------------
(* SpecCache: the CacheManager's API, called in any order while time passes *)

\* history: no record written by set is stored under the key (otherwise: when
\* it was written, what was passed, and whether it replaced a record)
NotWritten == [at |-> -1, summary |-> "", metadata |-> None, replaced |-> FALSE]

NoStats == [total_entries |-> 0, valid_entries |-> 0, expired_entries |-> 0]

\* history: a call, the instant it was made and what came back (value from
\* get, count from cleanup_expired, stats from get_cache_stats), and the call
\* before it
CacheCall(op, video_id, value, count, stats, raised, stored) ==
    [op |-> op, video_id |-> video_id, at |-> now, value |-> value,
     count |-> count, stats |-> stats, raised |-> raised, stored |-> stored,
     prev |-> cache_last.op, prev_at |-> cache_last.at]

NoCacheCall ==
    [op |-> "none", video_id |-> None, at |-> 0, value |-> None,
     count |-> 0, stats |-> NoStats, raised |-> FALSE, stored |-> FALSE,
     prev |-> "none", prev_at |-> 0]

\* the rate limiter's variables, which the cache does not touch
limiter_vars == <<config, user_limits, concurrent_queries, concurrent_lock,
                  last, admitted, running, tasks, reqs>>

\* history: the keys whose record a call removed no longer have one written
Forget(dir) ==
    [k \in Keys |-> IF _get_cache_path(k) \in DOMAIN dir
                    THEN written[k] ELSE NotWritten]

InitCache ==
    /\ config = AssistConfig
    /\ now = Epoch
    /\ user_limits = << >>
    /\ concurrent_queries = 0
    /\ concurrent_lock = NoTask
    /\ last = NoCall
    /\ admitted = [u \in Users |-> <<>>]
    /\ ticks = 0
    /\ calls = 0
    /\ running = NoTask
    /\ tasks = << >>
    /\ reqs = << >>
    /\ cache_dir = << >>
    /\ written = [k \in Keys |-> NotWritten]
    /\ cache_last = NoCacheCall

CacheSet(video_id, summary, metadata, storage) ==
    LET r == set(cache_dir, video_id, summary, metadata, now, storage)
    IN  /\ calls < MaxCacheOps
        /\ calls' = calls + 1
        /\ cache_dir' = r.cache_dir
        /\ written' =
             IF r.stored
             THEN [written EXCEPT ![video_id] =
                     [at |-> now, summary |-> summary, metadata |-> metadata,
                      replaced |-> _get_cache_path(video_id) \in DOMAIN cache_dir]]
             ELSE IF storage = "unavailable" THEN written
             ELSE [written EXCEPT ![video_id] = NotWritten]
        /\ cache_last' = CacheCall("set", Text(video_id), None, 0, NoStats,
                                   r.raised, r.stored)
        /\ UNCHANGED <<limiter_vars, now, ticks>>

CacheGet(video_id) ==
    LET r == get(cache_dir, video_id, now)
    IN  /\ calls < MaxCacheOps
        /\ calls' = calls + 1
        /\ cache_dir' = r.cache_dir
        /\ cache_last' = CacheCall("get", Text(video_id), r.result, 0, NoStats,
                                   FALSE, FALSE)
        /\ UNCHANGED <<limiter_vars, now, ticks, written>>

\* video_id is None for clear()
CacheClear(video_id) ==
    /\ calls < MaxCacheOps
    /\ calls' = calls + 1
    /\ cache_dir' = clear(cache_dir, video_id)
    /\ written' = Forget(cache_dir')
    /\ cache_last' = CacheCall("clear", video_id, None, 0, NoStats, FALSE, FALSE)
    /\ UNCHANGED <<limiter_vars, now, ticks>>

CacheStats ==
    LET r == get_cache_stats(cache_dir, now)
    IN  /\ calls < MaxCacheOps
        /\ calls' = calls + 1
        /\ cache_dir' = r.cache_dir
        /\ cache_last' = CacheCall("get_cache_stats", None, None, 0, r.result,
                                   FALSE, FALSE)
        /\ UNCHANGED <<limiter_vars, now, ticks, written>>

CacheCleanup ==
    LET r == cleanup_expired(cache_dir, now)
    IN  /\ calls < MaxCacheOps
        /\ calls' = calls + 1
        /\ cache_dir' = r.cache_dir
        /\ cache_last' = CacheCall("cleanup_expired", None, None, r.result,
                                   NoStats, FALSE, FALSE)
        /\ UNCHANGED <<limiter_vars, now, ticks, written>>

\* what a damaged file holds: text that breaks off, a JSON document that is
\* not an object, an object without a timestamp
Damages ==
    {Truncated,
     Document([j |-> "array", items |-> << >>]),
     Document([j |-> "object",
               members |-> [summary |-> [j |-> "string", str |-> Text("s1")]]])}

\* the storage damages a stored record (spec: "resilient to corrupt or stale
\* on-disk entries")
Damage(video_id, contents) ==
    /\ calls < MaxCacheOps
    /\ _get_cache_path(video_id) \in DOMAIN cache_dir
    /\ cache_dir[_get_cache_path(video_id)] \notin Damages
    /\ calls' = calls + 1
    /\ cache_dir' = [cache_dir EXCEPT ![_get_cache_path(video_id)] = contents]
    /\ written' = [written EXCEPT ![video_id] = NotWritten]
    /\ cache_last' = CacheCall("damage", Text(video_id), None, 0, NoStats,
                               FALSE, FALSE)
    /\ UNCHANGED <<limiter_vars, now, ticks>>

\* datetime.now() advances
CacheTick(d) ==
    /\ ticks < MaxTicks
    /\ ticks' = ticks + 1
    /\ now' = now + d
    /\ UNCHANGED <<limiter_vars, calls, cache_vars>>

NextCache ==
    \/ \E k \in Keys, p \in Payloads, st \in Storage :
          CacheSet(k, p[1], p[2], st)
    \/ \E k \in Keys : CacheGet(k)
    \/ \E k \in Keys : CacheClear(Text(k))
    \/ CacheClear(None)
    \/ CacheStats
    \/ CacheCleanup
    \/ \E k \in Keys, c \in Damages : Damage(k, c)
    \/ \E d \in CacheTickSteps : CacheTick(d)

SpecCache == InitCache /\ [][NextCache]_vars

\* the step is a call of the CacheManager (SpecCache counts them)
CacheStep(op) == calls' = calls + 1 /\ cache_last'.op = op

-----------------------------------------------------------------------------
(* SpecSummarize: video requests running assist from acquire (127) to the  *)
(* end of the guarded section (228), against the CacheManager's files.     *)
(* As in SpecAssist a request's position is the await it is suspended at.  *)

\* the text the summarizer streams, the text summarize_stream yields when the
\* request to the model fails (summarizer_service.py 141-142), the text
\* assist appends when the stream raises (agent.py 206), the footer (210)
SummaryChunk == "Summary."
GeneratorError == "Error generating summary: E"
StreamError == "Error: E"
Footer == "Summarized from: u"

\* "".join(summary_parts) (line 216)
RECURSIVE join(_)
join(parts) == IF parts = << >> THEN "" ELSE Head(parts) \o join(Tail(parts))

\* how the summary stream ends: exhausted after its chunks, with the
\* generator's error text as last chunk, or by an exception inside the loop
StreamEnds == {"done", "generator_error", "raised"}

\* the awaits inside the guarded section at which assist returns
ReturningAwaits == {"invalid_url", "cache_hit", "transcript_error", "complete"}

\* the other awaits inside the guarded section
WorkingAwaits == {"transcript", "summarize", "stream_complete"}

\* the requests that ask for a summary, one of each user
Summarizing == {"r1", "r3"}

IdleSummarize ==
    [pc |-> "idle", user |-> "none", video_id |-> "", summary_parts |-> << >>,
     failed |-> FALSE, served_failed |-> FALSE]

InitSummarize ==
    /\ config = AssistConfig
    /\ now = Epoch
    /\ user_limits = << >>
    /\ concurrent_queries = 0
    /\ concurrent_lock = NoTask
    /\ last = NoCall
    /\ admitted = [u \in Users |-> <<>>]
    /\ ticks = 0
    /\ calls = 0
    /\ running = NoTask
    /\ tasks = << >>
    /\ reqs = [r \in Summarizing |-> IdleSummarize]
    /\ cache_dir = << >>
    /\ written = << >>
    /\ cache_last = << >>

\* lines 127-173: acquire, extract the video id, look the summary up, up to
\* the first await
Enter(r, video_id) ==
    LET a == acquire(user_limits, concurrent_queries, UserOf(r), now)
        g == get(cache_dir, video_id, now)
        entered == [IdleSummarize EXCEPT !.user = UserOf(r), !.video_id = video_id]
    IN  /\ reqs[r].pc \in {"idle", "finished"}
        /\ calls < MaxRequests
        /\ calls' = calls + 1
        /\ user_limits' = a.user_limits
        /\ concurrent_queries' = a.concurrent_queries
        /\ IF ~ a.is_allowed
           THEN /\ reqs' = [reqs EXCEPT ![r] = [entered EXCEPT !.pc = "rate_limit_error"]]
                /\ UNCHANGED cache_dir
           ELSE IF ~ Truthy(Text(video_id))
           THEN /\ reqs' = [reqs EXCEPT ![r] = [entered EXCEPT !.pc = "invalid_url"]]
                /\ UNCHANGED cache_dir
           ELSE /\ cache_dir' = g.cache_dir
                /\ reqs' = [reqs EXCEPT ![r] =
                              IF Truthy(g.result)
                              THEN [entered EXCEPT
                                      !.pc = "cache_hit",
                                      !.served_failed = written[video_id].failed]
                              ELSE [entered EXCEPT !.pc = "transcript"]]
        /\ UNCHANGED <<written, cache_last, config, now, concurrent_lock, last, admitted,
                       ticks, running, tasks>>

\* lines 129-135: the rate limit error is streamed; a raise goes to the
\* outer "except Exception" (230)
ReplyDenied(r, outcome) ==
    /\ reqs[r].pc = "rate_limit_error"
    /\ reqs' = IF outcome = "raise"
               THEN [reqs EXCEPT ![r].pc = "handler"]
               ELSE [reqs EXCEPT ![r].pc = "finished"]
    /\ UNCHANGED <<cache_vars, config, now, user_limits, concurrent_queries, concurrent_lock,
                   last, admitted, ticks, calls, running, tasks>>

\* lines 173-193: get_youtube_transcript returns
TranscriptReturns(r, success) ==
    /\ reqs[r].pc = "transcript"
    /\ reqs' = [reqs EXCEPT ![r].pc = IF success THEN "summarize"
                                      ELSE "transcript_error"]
    /\ UNCHANGED <<cache_vars, config, now, user_limits, concurrent_queries, concurrent_lock,
                   last, admitted, ticks, calls, running, tasks>>

\* lines 199-203: the stream yields a chunk of the summary
Yields(r) ==
    /\ reqs[r].pc = "summarize"
    /\ reqs[r].summary_parts = << >>
    /\ reqs' = [reqs EXCEPT ![r].summary_parts = Append(@, SummaryChunk)]
    /\ UNCHANGED <<cache_vars, config, now, user_limits, concurrent_queries, concurrent_lock,
                   last, admitted, ticks, calls, running, tasks>>

\* lines 199-214: the loop over the stream ends and the footer is appended
StreamEnd(r, how) ==
    /\ reqs[r].pc = "summarize"
    /\ reqs' = [reqs EXCEPT
                  ![r].pc = "stream_complete",
                  ![r].failed = how # "done",
                  ![r].summary_parts =
                      CASE how = "done" -> Append(@, Footer)
                        [] how = "generator_error" -> @ \o <<GeneratorError, Footer>>
                        [] how = "raised" -> @ \o <<StreamError, Footer>>]
    /\ UNCHANGED <<cache_vars, config, now, user_limits, concurrent_queries, concurrent_lock,
                   last, admitted, ticks, calls, running, tasks>>

\* lines 214-224: final_response_stream.complete() returns and the summary
\* is cached
Store(r, storage) ==
    LET full_summary == join(reqs[r].summary_parts)
        s == set(cache_dir, reqs[r].video_id, full_summary,
                 Dict([url |-> Text("u")]), now, storage)
    IN  /\ reqs[r].pc = "stream_complete"
        /\ cache_dir' = s.cache_dir
        /\ written' = IF s.stored
                      THEN [k \in DOMAIN written \cup {reqs[r].video_id} |->
                              IF k = reqs[r].video_id
                              THEN [summary |-> full_summary,
                                    failed |-> reqs[r].failed]
                              ELSE written[k]]
                      ELSE written
        /\ reqs' = [reqs EXCEPT ![r].pc = "complete"]
        /\ UNCHANGED <<cache_last, config, now, user_limits, concurrent_queries,
                       concurrent_lock, last, admitted, ticks, calls, running, tasks>>

\* assist returns from inside the try (145, 166, 184, 224) and the finally
\* clause releases
Returns(r) ==
    /\ reqs[r].pc \in ReturningAwaits
    /\ concurrent_queries' = release(concurrent_queries)
    /\ reqs' = [reqs EXCEPT ![r].pc = "finished"]
    /\ UNCHANGED <<cache_vars, config, now, user_limits, concurrent_lock, last, admitted,
                   ticks, calls, running, tasks>>

\* an await inside the try raises or is cancelled: the finally clause
\* releases, then a raise goes on to the outer "except Exception"
Fail(r, exit) ==
    /\ reqs[r].pc \in ReturningAwaits \cup WorkingAwaits
    /\ concurrent_queries' = release(concurrent_queries)
    /\ reqs' = [reqs EXCEPT ![r].pc = IF exit = "raise" THEN "handler"
                                      ELSE "finished"]
    /\ UNCHANGED <<cache_vars, config, now, user_limits, concurrent_lock, last, admitted,
                   ticks, calls, running, tasks>>

\* lines 230-240: the outer handler streams the error and calls release,
\* unless its own awaits raise or are cancelled
HandlerEnds(r, outcome) ==
    /\ reqs[r].pc = "handler"
    /\ concurrent_queries' = IF outcome = "ok" THEN release(concurrent_queries)
                             ELSE concurrent_queries
    /\ reqs' = [reqs EXCEPT ![r].pc = "finished"]
    /\ UNCHANGED <<cache_vars, config, now, user_limits, concurrent_lock, last, admitted,
                   ticks, calls, running, tasks>>

NextSummarize ==
    \/ \E r \in Summarizing, video_id \in Keys : Enter(r, video_id)
    \/ \E r \in Summarizing, outcome \in Outcomes : ReplyDenied(r, outcome)
    \/ \E r \in Summarizing, success \in BOOLEAN : TranscriptReturns(r, success)
    \/ \E r \in Summarizing : Yields(r)
    \/ \E r \in Summarizing, how \in StreamEnds : StreamEnd(r, how)
    \/ \E r \in Summarizing, storage \in Storage : Store(r, storage)
    \/ \E r \in Summarizing : Returns(r)
    \/ \E r \in Summarizing, exit \in {"raise", "cancel"} : Fail(r, exit)
    \/ \E r \in Summarizing, outcome \in Outcomes : HandlerEnds(r, outcome)

SpecSummarize == InitSummarize /\ [][NextSummarize]_vars

-----------------------------------------------------------------------------
(* Claims *)

\* C1: under any interleaving of acquire and release calls by concurrent
\* callers, 0 <= concurrent_queries <= max_concurrent_platform in every
\* reachable state, and the callers that passed the capacity check and have
\* not incremented yet never outnumber the free slots.
C1_CounterWithinCapacity ==
    /\ 0 <= concurrent_queries
    /\ concurrent_queries <= max_concurrent_platform
    /\ concurrent_queries + Cardinality(PassedCheck) <= max_concurrent_platform

\* a caller has passed the capacity check while exactly one slot was free,
\* after another caller's acquire took the slot before it
C1_Witness ==
    /\ concurrent_queries = max_concurrent_platform - 1
    /\ concurrent_queries > 0
    /\ PassedCheck # {}

\* the release calls a finished or running request has made so far, against
\* the one its admitted acquire calls for
ReleasesDue(r) == IF reqs[r].acquired = "admitted" THEN 1 ELSE 0

\* C2: in assist, release is called exactly once for each acquire that
\* returned admitted and never for a request whose acquire was denied or not
\* reached, on every path, the paths that raise included.
C2_ReleaseExactlyOnce ==
    \A r \in Requests :
        /\ reqs[r].releases <= ReleasesDue(r)
        /\ reqs[r].pc = "finished" => reqs[r].releases = ReleasesDue(r)

\* C3: the number of requests inside the guarded section of assist never
\* exceeds max_concurrent_platform.
C3_GuardedWithinCapacity ==
    Cardinality(InGuarded) <= max_concurrent_platform

\* C4: whenever acquire has admitted a request in assist, release is
\* eventually executed for that request, whether the guarded work returns
\* early, completes, raises or is cancelled.
C4_AdmittedEventuallyReleases ==
    \A r \in Requests :
        (reqs[r].acquired = "admitted" /\ reqs[r].releases = 0)
            ~> (reqs[r].releases >= 1)

\* an admitted request was cancelled inside the guarded section and has
\* released its slot
C4_Witness ==
    \E r \in Requests :
        /\ reqs[r].pc = "finished"
        /\ reqs[r].acquired = "admitted"
        /\ reqs[r].exit = "cancel"
        /\ reqs[r].releases = 1

\* the user's record as a call would find it, and after the step
Rec(u) == Lookup(user_limits, u)[u]
RecAfter(u) == Lookup(user_limits', u)[u]

\* the user's admitted acquires of the trailing minute and hour
AdmittedLastMinute(u) == Len(Newer(admitted[u], now - MinuteWindow))
AdmittedLastHour(u) == Len(Newer(admitted[u], now - HourWindow))

\* the step is a call of acquire by u (Spec counts the calls of acquire)
AcquireStepBy(u) ==
    calls' = calls + 1 /\ last'.op = "acquire" /\ last'.user = u

\* the step is a call of release (told by the history it leaves)
ReleaseStep == last'.op = "release" /\ last' # last

\* C5: for every user and at every instant, the number of that user's
\* admitted acquire calls in the trailing 60 seconds (the instants t with
\* t > now - 60) is at most requests_per_minute, and in the trailing 3600
\* seconds at most requests_per_hour.
C5_AdmittedWithinLimits ==
    \A u \in Users :
        /\ AdmittedLastMinute(u) <= requests_per_minute
        /\ AdmittedLastHour(u) <= requests_per_hour

\* a user used up the hour's quota without ever exceeding the minute's, and
\* the next acquire was denied for the hour limit
C5_Witness ==
    \E u \in Users :
        /\ AdmittedLastHour(u) = requests_per_hour
        /\ AdmittedLastMinute(u) < requests_per_minute
        /\ last = [op |-> "acquire", user |-> u, is_allowed |-> FALSE,
                   error |-> "hour", cq_before |-> last.cq_before]

\* C6: when a user with requests_per_minute admitted calls in the trailing
\* minute calls acquire at time t, the call is denied and blocked_until
\* becomes t + block_duration_seconds; an acquire made while the block is in
\* force is denied as blocked and leaves blocked_until as it is; from
\* blocked_until on, no acquire is denied as blocked.
C6_BlockedForBlockDuration ==
    [][\A u \in Users :
          AcquireStepBy(u) =>
            /\ (Rec(u).blocked_until <= now
                  /\ AdmittedLastMinute(u) = requests_per_minute)
               => /\ ~ last'.is_allowed
                  /\ last'.error = "minute"
                  /\ RecAfter(u).blocked_until = now + block_duration_seconds
            /\ Rec(u).blocked_until > now
               => /\ ~ last'.is_allowed
                  /\ last'.error = "blocked"
                  /\ RecAfter(u).blocked_until = Rec(u).blocked_until
            /\ Rec(u).blocked_until <= now => last'.error # "blocked"
      ]_vars

\* a call made while the block set by the (requests_per_minute + 1)-th call
\* is in force was denied as blocked
C6_Witness ==
    \E u \in Users :
        /\ last.op = "acquire" /\ last.user = u /\ last.error = "blocked"
        /\ u \in DOMAIN user_limits
        /\ user_limits[u].blocked_until > now
        /\ now > Epoch

\* C7: once a user's blocked_until is set to a future time, no operation
\* lowers or clears it or deletes the user's record before that time.
C7_BlockSticky ==
    [][\A u \in DOMAIN user_limits :
          (user_limits[u].blocked_until > now
             /\ user_limits[u].blocked_until > now')
          => /\ u \in DOMAIN user_limits'
             /\ user_limits'[u].blocked_until = user_limits[u].blocked_until
      ]_vars

\* the per-user checks of acquire would pass
Eligible(u) ==
    /\ Rec(u).blocked_until <= now
    /\ cooldown_seconds = 0
    /\ AdmittedLastMinute(u) < requests_per_minute
    /\ AdmittedLastHour(u) < requests_per_hour

\* C8: an acquire by an otherwise eligible user is denied with the capacity
\* reason exactly when concurrent_queries >= max_concurrent_platform, and is
\* admitted otherwise.
C8_CapacityDenial ==
    [][\A u \in Users :
          (AcquireStepBy(u) /\ Eligible(u)) =>
            IF concurrent_queries >= max_concurrent_platform
            THEN ~ last'.is_allowed /\ last'.error = "capacity"
            ELSE last'.is_allowed
      ]_vars

\* after a capacity denial and one release, the user was admitted to the
\* last free slot
C8_Witness ==
    /\ last.op = "acquire" /\ last.is_allowed
    /\ last.cq_before = max_concurrent_platform - 1
    /\ concurrent_queries = max_concurrent_platform
    /\ calls > max_concurrent_platform + 1

\* C9: release called when concurrent_queries is 0 leaves it at 0 and
\* changes no other limiter state; concurrent_queries is never negative.
C9_ReleaseFlooredAtZero ==
    [][/\ concurrent_queries' >= 0
       /\ (ReleaseStep /\ concurrent_queries = 0)
          => /\ concurrent_queries' = 0
             /\ user_limits' = user_limits
      ]_vars

\* release was called with no unmatched acquire
C9_Witness ==
    /\ last.op = "release"
    /\ last.cq_before = 0
    /\ concurrent_queries = 0

\* C10: an admitted acquire raises concurrent_queries by exactly 1, a denied
\* acquire leaves it unchanged, and a release that follows an admitted
\* acquire with no other acquire or release in between brings it back to
\* its value before that acquire.
C10_AcquireReleaseRoundTrip ==
    [][/\ \A u \in Users :
            AcquireStepBy(u) =>
                concurrent_queries' =
                    IF last'.is_allowed THEN concurrent_queries + 1
                    ELSE concurrent_queries
       /\ (last.op = "acquire" /\ last.is_allowed /\ last'.op = "release")
          => concurrent_queries' = last.cq_before
      ]_vars

\* a release brought the counter back down while another slot stays taken
C10_Witness ==
    /\ last.op = "release"
    /\ last.cq_before = concurrent_queries + 1
    /\ concurrent_queries > 0

\* the time-to-live in seconds
TtlSeconds == ttl_hours * 3600

\* the key of the last call
LastKey == cache_last.video_id.s

\* C11: if get(k) returns an entry, then now <= createdAt + ttl, where
\* createdAt is the time of the most recent successful set(k).
C11_GetNeverReturnsExpired ==
    (cache_last.op = "get" /\ cache_last.value # None)
    => /\ written[LastKey].at >= 0
       /\ cache_last.at <= written[LastKey].at + TtlSeconds

\* get returned an entry at the last instant of its life
C11_Witness ==
    /\ cache_last.op = "get"
    /\ cache_last.value # None
    /\ cache_last.at = written[LastKey].at + TtlSeconds

\* C12: an entry written at t0 and not cleared or overwritten since is
\* returned by get at every time up to t0 + ttl - 1s, and is a Miss at every
\* time from t0 + ttl + 1s on.
C12_ExpiryBoundary ==
    (cache_last.op = "get" /\ written[LastKey].at >= 0)
    => /\ cache_last.at <= written[LastKey].at + TtlSeconds - 1
          => /\ cache_last.value # None
             /\ cache_last.value.d["summary"] = Text(written[LastKey].summary)
       /\ cache_last.at >= written[LastKey].at + TtlSeconds + 1
          => cache_last.value = None

\* get reported a Miss one second after the entry's time-to-live ended
C12_Witness ==
    /\ cache_last.op = "get"
    /\ written[LastKey].at >= 0
    /\ cache_last.at = written[LastKey].at + TtlSeconds + 1
    /\ cache_last.value = None

\* a value JSON gives back as it was written: None, a str, a list or a dict
\* of such values
RECURSIVE JsonNative(_)
JsonNative(v) ==
    CASE v.type \in {"NoneType", "str"} -> TRUE
      [] v.type = "list" -> \A i \in DOMAIN v.items : JsonNative(v.items[i])
      [] v.type = "dict" -> \A k \in DOMAIN v.d : JsonNative(v.d[k])
      [] OTHER -> FALSE

\* the step is a get of the key that the call before it, made at the same
\* instant, stored with set
GetRightAfterSet ==
    /\ cache_last.op = "set" /\ cache_last.stored /\ cache_last.at = now
    /\ CacheStep("get")
    /\ cache_last'.video_id = cache_last.video_id

\* the entry the step's get returns has the summary and the metadata (an
\* empty dict when omitted) of the last set
ReturnsWhatWasSet ==
    LET w == written[LastKey]
    IN  /\ cache_last'.value # None
        /\ cache_last'.value.d["summary"] = Text(w.summary)
        /\ cache_last'.value.d["metadata"] =
             IF w.metadata = None THEN Dict(<< >>) ELSE w.metadata

\* C13 as stated: for every key k, payload v and metadata m, a successful
\* set(k, v, m) followed immediately by get(k) returns an entry whose summary
\* is v and whose metadata is m (an empty map when m was omitted), also when
\* a record for k already existed.
C13_RoundTrip ==
    [][GetRightAfterSet => ReturnsWhatWasSet]_vars

\* C13: for every key k, payload v and metadata m made of the values JSON
\* gives back as written (None, strings, lists, string-keyed dicts), a
\* successful set(k, v, m) followed immediately by get(k) returns an entry
\* whose summary is v and whose metadata is m (an empty map when m was
\* omitted), also when a record for k already existed.
C13_RoundTripJsonValues ==
    [][(GetRightAfterSet /\ JsonNative(written[LastKey].metadata))
         => ReturnsWhatWasSet]_vars

\* a set replaced the key's record and the get right after it returned the
\* new summary and metadata
C13_Witness ==
    /\ cache_last.op = "get" /\ cache_last.prev = "set"
    /\ cache_last.prev_at = cache_last.at
    /\ written[LastKey].at = cache_last.at
    /\ written[LastKey].replaced
    /\ written[LastKey].metadata = Dict([url |-> Text("u")])
    /\ cache_last.value # None
    /\ cache_last.value.d["metadata"] = Dict([url |-> Text("u")])

\* the files of the directory with what they hold, as far as two
\* directories can be compared: the same files, each with the same contents
SameFiles(dir1, dir2) ==
    /\ DOMAIN dir1 = DOMAIN dir2
    /\ \A p \in DOMAIN dir1 :
          /\ dir1[p].text = dir2[p].text
          /\ dir1[p].text = "json" => dir1[p].doc = dir2[p].doc

\* C14: calling cleanup_expired twice in succession with no time elapsed and
\* no other operation in between returns 0 on the second call and leaves the
\* store unchanged.
C14_CleanupIdempotent ==
    [][(cache_last.op = "cleanup_expired" /\ cache_last.at = now
          /\ CacheStep("cleanup_expired"))
         => /\ cache_last'.count = 0
            /\ SameFiles(cache_dir', cache_dir)
      ]_vars

\* a cleanup removed an expired record and the cleanup right after it, at the
\* same instant, removed nothing
C14_Witness ==
    /\ cache_last.op = "cleanup_expired" /\ cache_last.prev = "cleanup_expired"
    /\ cache_last.prev_at = cache_last.at
    /\ cache_last.count = 0
    /\ \E k \in Keys :
          /\ written[k].at >= 0
          /\ cache_last.at > written[k].at + TtlSeconds
          /\ _get_cache_path(k) \notin DOMAIN cache_dir

\* the files that hold a record a set wrote and whose time-to-live has not
\* ended: the readable, unexpired records
Fresh(dir, current) ==
    {p \in DOMAIN dir :
        \E k \in Keys : /\ p = _get_cache_path(k)
                        /\ written[k].at >= 0
                        /\ current <= written[k].at + TtlSeconds}

\* C15: cleanup_expired deletes exactly the records that are expired or
\* unreadable at the time of the call, keeps every readable unexpired record
\* unchanged, and returns the number of records it deleted.
C15_CleanupExact ==
    [][CacheStep("cleanup_expired")
         => /\ DOMAIN cache_dir' = Fresh(cache_dir, now)
            /\ \A p \in DOMAIN cache_dir' :
                  /\ cache_dir'[p].text = "json"
                  /\ cache_dir'[p] = cache_dir[p]
            /\ cache_last'.count =
                 Cardinality(DOMAIN cache_dir) - Cardinality(DOMAIN cache_dir')
      ]_vars

\* cleanup_expired removed one record and kept the other, an unexpired one
C15_Witness ==
    /\ cache_last.op = "cleanup_expired"
    /\ cache_last.count = 1
    /\ Cardinality(DOMAIN cache_dir) = 1
    /\ DOMAIN cache_dir = Fresh(cache_dir, cache_last.at)

\* C16: whenever get(k) finds a stored record for k that it does not return
\* (unreadable, or past its time-to-live), it returns Miss and the record is
\* deleted: a following get_cache_stats counts one entry less and a following
\* get(k) is a Miss.
C16_MissDeletesRecord ==
    [][\A k \in Keys :
          (CacheStep("get") /\ cache_last'.video_id = Text(k)
             /\ _get_cache_path(k) \in DOMAIN cache_dir
             /\ _get_cache_path(k) \notin Fresh(cache_dir, now))
          => /\ cache_last'.value = None
             /\ _get_cache_path(k) \notin DOMAIN cache_dir'
             /\ get_cache_stats(cache_dir', now).result.total_entries
                  = Cardinality(DOMAIN cache_dir) - 1
             /\ get(cache_dir', k, now).result = None
      ]_vars

\* a get found the record written earlier past its time-to-live, reported a
\* Miss and deleted it
C16_Witness ==
    /\ cache_last.op = "get" /\ cache_last.prev = "set"
    /\ cache_last.value = None
    /\ written[LastKey].at >= 0
    /\ cache_last.at > written[LastKey].at + TtlSeconds
    /\ _get_cache_path(LastKey) \notin DOMAIN cache_dir

\* C17: get_cache_stats does not create, modify or delete any record, even
\* those it counts as expired or corrupt; a corrupt record is counted in
\* expired_entries.
C17_StatsReadOnly ==
    [][CacheStep("get_cache_stats")
         => /\ SameFiles(cache_dir', cache_dir)
            /\ cache_last'.stats.total_entries = Cardinality(DOMAIN cache_dir)
            /\ cache_last'.stats.valid_entries
                 = Cardinality(Fresh(cache_dir, now))
            /\ cache_last'.stats.expired_entries
                 = Cardinality(DOMAIN cache_dir \ Fresh(cache_dir, now))
      ]_vars

\* get_cache_stats counted an unreadable file as expired and the file is
\* still there
C17_Witness ==
    /\ cache_last.op = "get_cache_stats"
    /\ cache_last.stats.expired_entries >= 1
    /\ \E p \in DOMAIN cache_dir : cache_dir[p].text = "truncated"

\* C18: set never fails its caller: if the write fails, at opening the
\* record for writing or at serialising the payload and metadata, set returns
\* normally without raising.
C18_SetNeverRaises ==
    cache_last.op = "set" => ~ cache_last.raised

\* a set whose metadata json.dump cannot serialise returned normally, leaving
\* the text written so far
C18_Witness ==
    /\ cache_last.op = "set"
    /\ ~ cache_last.stored /\ ~ cache_last.raised
    /\ _get_cache_path(LastKey) \in DOMAIN cache_dir
    /\ cache_dir[_get_cache_path(LastKey)].text = "truncated"

\* C19: clear(k), for every key string k (the empty string included),
\* deletes the record of k only and leaves the records of all other keys
\* unchanged; clear with no key deletes every record.
C19_ClearOnlyKey ==
    [][CacheStep("clear")
         => IF cache_last'.video_id = None
            THEN DOMAIN cache_dir' = {}
            ELSE /\ DOMAIN cache_dir' =
                      DOMAIN cache_dir \ {_get_cache_path(cache_last'.video_id.s)}
                 /\ SameFiles(cache_dir',
                              Unlink(cache_dir,
                                     _get_cache_path(cache_last'.video_id.s)))
      ]_vars

\* C20: in assist, the cache is consulted before the rate limiter: a request
\* served from the cache has not called acquire, so it holds no platform slot
\* and no timestamp was recorded for it.
C20_CacheBeforeAcquire ==
    \A r \in Requests : reqs[r].pc = "cache_hit" => reqs[r].acquired = "none"

\* the checks of acquire on the user's record, in the words of the claim:
\* the block is in force; the cooldown since the record's last request has
\* not passed; the admitted requests of the trailing minute, or hour, have
\* reached the limit; the platform is full
BlockFails(u) == Rec(u).blocked_until > now
CooldownFails(u) ==
    /\ cooldown_seconds > 0
    /\ Rec(u).last_request > 0 /\ Rec(u).requests # << >>
    /\ now - Rec(u).last_request < cooldown_seconds
MinuteFails(u) == AdmittedLastMinute(u) >= requests_per_minute
HourFails(u) == AdmittedLastHour(u) >= requests_per_hour
CapacityFails == concurrent_queries >= max_concurrent_platform

\* the reason of the first failing check, in the fixed order
FirstFailing(u) ==
    IF BlockFails(u) THEN "blocked"
    ELSE IF CooldownFails(u) THEN "cooldown"
    ELSE IF MinuteFails(u) THEN "minute"
    ELSE IF HourFails(u) THEN "hour"
    ELSE IF CapacityFails THEN "capacity"
    ELSE "none"

\* C21: acquire returns (True, None) exactly when no check fails; otherwise
\* it returns (False, reason) with the reason of the first failing check in
\* the order block, cooldown, per-minute limit, per-hour limit, platform
\* capacity; both limits are violated at count >= limit.
C21_FirstFailingCheck ==
    [][\A u \in Users :
          AcquireStepBy(u) =>
            /\ last'.error = FirstFailing(u)
            /\ last'.is_allowed = (FirstFailing(u) = "none")
      ]_vars

\* an acquire made when both limits were reached was denied with the
\* per-minute reason
C21_Witness ==
    \E u \in Users :
        /\ last.op = "acquire" /\ last.user = u /\ last.error = "minute"
        /\ AdmittedLastMinute(u) >= requests_per_minute
        /\ AdmittedLastHour(u) >= requests_per_hour
        /\ Rec(u).blocked_until = now + block_duration_seconds

\* the instant of the user's last admitted request (SpecCooldown keeps them
\* all)
LastAdmitted(u) == admitted[u][Len(admitted[u])]

\* C22: when cooldown_seconds > 0, an acquire by a user who is not blocked,
\* has a prior admitted request and whose last admitted request is less than
\* cooldown_seconds ago is denied for cooldown, whatever pruning or sweeps
\* have run since; when cooldown_seconds = 0 no acquire is denied for
\* cooldown.
C22_CooldownEnforced ==
    [][\A u \in Users :
          AcquireStepBy(u) =>
            /\ (cooldown_seconds > 0 /\ ~ BlockFails(u)
                  /\ admitted[u] # << >>
                  /\ now - LastAdmitted(u) < cooldown_seconds)
               => (~ last'.is_allowed /\ last'.error = "cooldown")
            /\ cooldown_seconds = 0 => last'.error # "cooldown"
      ]_vars

\* C23: an acquire denied only for platform capacity records no request
\* timestamp (the list is only pruned to the trailing hour), leaves
\* last_request, blocked_until and concurrent_queries unchanged, and the same
\* user's acquire at once after one release is admitted.
C23_CapacityDenialNoPenalty ==
    [][\A u \in Users :
          (AcquireStepBy(u) /\ last'.error = "capacity") =>
            /\ ~ last'.is_allowed
            /\ RecAfter(u).requests = Newer(Rec(u).requests, now - HourWindow)
            /\ RecAfter(u).last_request = Rec(u).last_request
            /\ RecAfter(u).blocked_until = Rec(u).blocked_until
            /\ concurrent_queries' = concurrent_queries
            /\ acquire(user_limits', release(concurrent_queries'), u, now).is_allowed
      ]_vars

\* a user with an admitted request earlier, denied only for capacity
C23_Witness ==
    \E u \in Users :
        /\ last.op = "acquire" /\ last.user = u /\ last.error = "capacity"
        /\ admitted[u] # << >>
        /\ Rec(u).requests # << >>
        /\ concurrent_queries = max_concurrent_platform

\* the timestamps of a record that lie within the trailing hour, by position
WithinHour(rec) == {i \in 1..Len(rec.requests) : now - rec.requests[i] < HourWindow}

\* C24: a sweep keeps of each user's timestamps exactly those newer than one
\* hour, in their order, deletes a record exactly when none is left and its
\* last_request is more than one hour old, changes no other field, adds no
\* record and leaves concurrent_queries unchanged.
C24_SweepExact ==
    [][Sweep =>
         /\ concurrent_queries' = concurrent_queries
         /\ DOMAIN user_limits' \subseteq DOMAIN user_limits
         /\ \A u \in DOMAIN user_limits :
              /\ u \notin DOMAIN user_limits'
                   <=> (/\ WithinHour(user_limits[u]) = {}
                        /\ now - user_limits[u].last_request > HourWindow)
              /\ u \in DOMAIN user_limits' =>
                   /\ user_limits'[u].last_request = user_limits[u].last_request
                   /\ user_limits'[u].blocked_until = user_limits[u].blocked_until
                   /\ Len(user_limits'[u].requests)
                        = Cardinality(WithinHour(user_limits[u]))
                   /\ \A i \in 1..Len(user_limits'[u].requests) :
                        user_limits'[u].requests[i]
                          = user_limits[u].requests[
                              i + Len(user_limits[u].requests)
                                - Len(user_limits'[u].requests)]
              /\ WithinHour(user_limits[u]) # {} => u \in DOMAIN user_limits'
      ]_vars

\* after a sweep one user's record is gone and the other's record keeps its
\* timestamp of the trailing hour
C24_Witness ==
    \E u, v \in Users :
        /\ admitted[u] # << >> /\ u \notin DOMAIN user_limits
        /\ v \in DOMAIN user_limits /\ user_limits[v].requests # << >>
        /\ now - LastAdmitted(u) > HourWindow

\* C25: set is called only when the summarization finished without an
\* error: no stored record holds the summary of a stream that failed, and no
\* request is served such a summary as a cache hit.
C25_OnlyCompletedCached ==
    /\ \A k \in DOMAIN written : ~ written[k].failed
    /\ \A r \in Summarizing : reqs[r].pc = "cache_hit" => ~ reqs[r].served_failed

\* C26: a set(k, ...) that fails leaves the record stored under k intact: if
\* get(k) returned an entry before the failed set, it returns the same entry
\* after it.
C26_FailedSetKeepsRecord ==
    [][\A k \in Keys :
          (CacheStep("set") /\ cache_last'.video_id = Text(k)
             /\ ~ cache_last'.stored
             /\ get(cache_dir, k, now).result # None)
          => /\ get(cache_dir', k, now).result # None
             /\ get(cache_dir', k, now).result.d["summary"]
                  = get(cache_dir, k, now).result.d["summary"]
             /\ get(cache_dir', k, now).result.d["timestamp"]
                  = get(cache_dir, k, now).result.d["timestamp"]
      ]_vars

\* C27: a request that is not a video summarization (rejected by the
\* validator, a greeting, a prompt without URL: it never reaches acquire)
\* leaves every user's quota and concurrent_queries unchanged in each of its
\* steps, and has called release at no point.
C27_NonVideoNeverLimited ==
    [][\A r \in Requests :
          (reqs[r].acquired = "none"
             /\ reqs[r].pc \in {"security_error", "greeting", "handler"}
             /\ reqs'[r] # reqs[r])
          => /\ concurrent_queries' = concurrent_queries
             /\ user_limits' = user_limits
             /\ reqs'[r].releases = 0
      ]_vars

\* C28: get_user_stats, for any user id, leaves the set of tracked users
\* (active_users of get_platform_stats), every user's record and
\* concurrent_queries unchanged, and acquire gives every user the same answer
\* after it as before.
C28_StatsReadOnly ==
    [][\A u \in Users :
          GetUserStats(u) =>
            /\ get_platform_stats(user_limits', concurrent_queries').active_users
                 = get_platform_stats(user_limits, concurrent_queries).active_users
            /\ DOMAIN user_limits' = DOMAIN user_limits
            /\ \A v \in DOMAIN user_limits : user_limits'[v] = user_limits[v]
            /\ concurrent_queries' = concurrent_queries
            /\ \A v \in Users :
                 acquire(user_limits', concurrent_queries', v, now).is_allowed
                   = acquire(user_limits, concurrent_queries, v, now).is_allowed
      ]_vars

\* C29: a get that returns an entry leaves every file as it was, the
\* entry's timestamp included, so the entry still expires ttl after its most
\* recent set: a get after that instant is a Miss.
C29_HitLeavesStore ==
    [][\A k \in Keys :
          (CacheStep("get") /\ cache_last'.video_id = Text(k)
             /\ cache_last'.value # None)
          => /\ SameFiles(cache_dir', cache_dir)
             /\ cache_last'.value.d["timestamp"] = isoformat(written[k].at)
             /\ get(cache_dir', k, written[k].at + TtlSeconds + 1).result = None
      ]_vars

\* an entry was returned by two gets in a row, the second later than the
\* first and at the last instant of the entry's life
C29_Witness ==
    /\ cache_last.op = "get" /\ cache_last.prev = "get"
    /\ cache_last.value # None
    /\ cache_last.prev_at < cache_last.at
    /\ written[LastKey].at < cache_last.prev_at
    /\ cache_last.at = written[LastKey].at + TtlSeconds

\* C30: a blocked user who keeps calling acquire while time advances and
\* slots are released is eventually admitted again (stated for the blocks
\* that leave the clock an hour and a block's length before its horizon).
C30_EventuallyAdmitted ==
    \A u \in LiveUsers :
        (Rec(u).blocked_until > now
           /\ now + HourWindow + block_duration_seconds <= Horizon)
        ~> (last.op = "acquire" /\ last.user = u /\ last.is_allowed)

\* a user is admitted after a block that was set when the hour's limit was
\* still reached a quarter of an hour before
C30_Witness ==
    \E u \in LiveUsers :
        /\ last.op = "acquire" /\ last.user = u /\ last.is_allowed
        /\ Rec(u).blocked_until > Epoch + block_duration_seconds
        /\ Rec(u).blocked_until <= now
        /\ Rec(u).requests = <<now>>

====
